---- MODULE Spec2Model ----
(***************************************************************************)
(* SB Notes: the JSON note store and the upload / search / view /          *)
(* generate operations of the terminal front end (sbnotes.py, NoteManager) *)
(* and of the web front end (sbnotes_web.py, SBNotesWeb).                  *)
(*                                                                         *)
(* Python values are modelled as tagged pairs: <<"str", s>>, <<"int", n>>, *)
(* <<"list", seq>> and <<"dict", seq of <<key, value>>>> (a dict keeps its *)
(* insertion order, as in Python).  Strings are TLA+ strings.  A JSON text *)
(* on disk is modelled as the sequence of its lexemes ("{", "\"id\"", ":", *)
(* "12", ...): json.dump produces the lexemes, json.load parses them.      *)
(***************************************************************************)
EXTENDS Integers, Sequences, FiniteSets, TLC

(***************************************************************************)
(* Bounds of the model.                                                    *)
(***************************************************************************)
MaxNotes == 2

(***************************************************************************)
(* Strings.                                                                *)
(***************************************************************************)
Ch(s, i) == SubSeq(s, i, i)

UpperCase == "ABCDEFGHIJKLMNOPQRSTUVWXYZ"
LowerCase == "abcdefghijklmnopqrstuvwxyz"
DigitChars == "0123456789"
Whitespace == {" ", "\n", "\t", "\r"}

UpperSet == {Ch(UpperCase, i) : i \in 1..Len(UpperCase)}
LowerOf == [c \in UpperSet |-> Ch(LowerCase, CHOOSE i \in 1..Len(UpperCase) : Ch(UpperCase, i) = c)]
DigitSet == {Ch(DigitChars, i) : i \in 1..Len(DigitChars)}
DigitValue == [c \in DigitSet |-> (CHOOSE i \in 1..Len(DigitChars) : Ch(DigitChars, i) = c) - 1]

\* str.lower(), character by character (the string is halved to keep the
\* evaluation shallow).
RECURSIVE lower(_)
lower(s) ==
  IF Len(s) = 0 THEN ""
  ELSE IF Len(s) = 1 THEN (IF s \in UpperSet THEN LowerOf[s] ELSE s)
  ELSE lower(SubSeq(s, 1, Len(s) \div 2)) \o lower(SubSeq(s, Len(s) \div 2 + 1, Len(s)))

\* str.strip().
strip(s) ==
  LET inner == {i \in 1..Len(s) : Ch(s, i) \notin Whitespace}
  IN IF inner = {} THEN ""
     ELSE SubSeq(s, CHOOSE i \in inner : \A j \in inner : i <= j,
                    CHOOSE i \in inner : \A j \in inner : i >= j)

startswith(s, p) == Len(s) >= Len(p) /\ SubSeq(s, 1, Len(p)) = p
endswith(s, p) == Len(s) >= Len(p) /\ SubSeq(s, Len(s) - Len(p) + 1, Len(s)) = p

\* Python's (t in s) for strings.
Contains(s, t) ==
  \E i \in 1..(Len(s) - Len(t) + 1) : SubSeq(s, i, i + Len(t) - 1) = t

\* Python's s[:n].
Prefix(s, n) == SubSeq(s, 1, IF Len(s) < n THEN Len(s) ELSE n)

RECURSIVE DigitsOf(_)
DigitsOf(n) ==
  IF n < 10 THEN Ch(DigitChars, n + 1)
  ELSE DigitsOf(n \div 10) \o Ch(DigitChars, (n % 10) + 1)

IsDigits(s) ==
  /\ s # ""
  /\ \A i \in 1..Len(s) : Ch(s, i) \in DigitSet
  /\ (Len(s) > 1 => Ch(s, 1) # "0")

RECURSIVE IntOf(_)
IntOf(s) ==
  IF s = "" THEN 0
  ELSE 10 * IntOf(SubSeq(s, 1, Len(s) - 1)) + DigitValue[Ch(s, Len(s))]

(***************************************************************************)
(* Python values and dict operations.                                      *)
(***************************************************************************)
JStr(s) == <<"str", s>>
JInt(n) == <<"int", n>>
JList(xs) == <<"list", xs>>
JDict(kvs) == <<"dict", kvs>>

IsStr(v) == v[1] = "str"
IsDict(v) == v[1] = "dict"
IsList(v) == v[1] = "list"

Keys(d) == {d[2][i][1] : i \in 1..Len(d[2])}
Has(d, k) == \E i \in 1..Len(d[2]) : d[2][i][1] = k
Get(d, k) == d[2][CHOOSE i \in 1..Len(d[2]) : d[2][i][1] = k][2]
GetOr(d, k, default) == IF Has(d, k) THEN Get(d, k) ELSE default

\* d[k] = v : replaces the value in place, or appends a new key.
Put(d, k, v) ==
  IF Has(d, k)
  THEN JDict([i \in 1..Len(d[2]) |->
                IF d[2][i][1] = k THEN <<k, v>> ELSE d[2][i]])
  ELSE JDict(Append(d[2], <<k, v>>))

(***************************************************************************)
(* json.dump: a value to the lexemes of its JSON text.                     *)
(***************************************************************************)
\* The positions of a string that json.dump escapes.
Special(b) == {i \in 1..Len(b) : Ch(b, i) \in {"\"", "\\", "\n"}}

\* A faulty variant of EscapeChar: a backslash is written as it is.
EscapeCharPlain(c) ==
  IF c = "\"" THEN "\\\""
  ELSE IF c = "\n" THEN "\\n"
  ELSE c

EscapeChar(c) ==
  IF c = "\"" THEN "\\\""
  ELSE IF c = "\\" THEN "\\\\"
  ELSE IF c = "\n" THEN "\\n"
  ELSE c

RECURSIVE EscapeAll(_)
EscapeAll(s) ==
  IF Len(s) = 0 THEN ""
  ELSE IF Len(s) = 1 THEN EscapeChar(s)
  ELSE EscapeAll(SubSeq(s, 1, Len(s) \div 2)) \o EscapeAll(SubSeq(s, Len(s) \div 2 + 1, Len(s)))

Escape(s) == IF Special(s) = {} THEN s ELSE EscapeAll(s)

DumpStr(s) == "\"" \o Escape(s) \o "\""

RECURSIVE json_dump(_), DumpItems(_), DumpMembers(_)
json_dump(v) ==
  CASE v[1] = "str" -> <<DumpStr(v[2])>>
    [] v[1] = "int" -> <<DigitsOf(v[2])>>
    [] v[1] = "list" -> <<"[">> \o DumpItems(v[2]) \o <<"]">>
    [] v[1] = "dict" -> <<"{">> \o DumpMembers(v[2]) \o <<"}">>

DumpItems(xs) ==
  IF xs = <<>> THEN <<>>
  ELSE json_dump(Head(xs))
         \o (IF Len(xs) > 1 THEN <<",">> ELSE <<>>)
         \o DumpItems(Tail(xs))

DumpMembers(kvs) ==
  IF kvs = <<>> THEN <<>>
  ELSE <<DumpStr(Head(kvs)[1]), ":">> \o json_dump(Head(kvs)[2])
         \o (IF Len(kvs) > 1 THEN <<",">> ELSE <<>>)
         \o DumpMembers(Tail(kvs))

\* The characters json.dump(v, f, indent=2) writes for a value at nesting
\* depth d: one item or member per line, indented by two spaces per level.
RECURSIVE Pad(_)
Pad(d) == IF d = 0 THEN "" ELSE "  " \o Pad(d - 1)

RECURSIVE DumpText(_, _), DumpTextItems(_, _), DumpTextMembers(_, _)
DumpText(v, d) ==
  CASE v[1] = "str" -> DumpStr(v[2])
    [] v[1] = "int" -> DigitsOf(v[2])
    [] v[1] = "list" ->
         IF v[2] = <<>> THEN "[]"
         ELSE "[\n" \o DumpTextItems(v[2], d + 1) \o "\n" \o Pad(d) \o "]"
    [] v[1] = "dict" ->
         IF v[2] = <<>> THEN "{}"
         ELSE "{\n" \o DumpTextMembers(v[2], d + 1) \o "\n" \o Pad(d) \o "}"

DumpTextItems(xs, d) ==
  Pad(d) \o DumpText(Head(xs), d)
    \o (IF Len(xs) > 1 THEN ",\n" \o DumpTextItems(Tail(xs), d) ELSE "")

DumpTextMembers(kvs, d) ==
  Pad(d) \o DumpStr(Head(kvs)[1]) \o ": " \o DumpText(Head(kvs)[2], d)
    \o (IF Len(kvs) > 1 THEN ",\n" \o DumpTextMembers(Tail(kvs), d) ELSE "")

(***************************************************************************)
(* json.load: the lexemes of a JSON text to a value, or a decode error.    *)
(***************************************************************************)
\* The number of consecutive backslashes that end at position m of b.  When
\* it is odd, the backslash at m introduces an escape of the next character.
BackslashRun(b, m) ==
  CHOOSE k \in 0..m :
    /\ \A j \in (m - k + 1)..m : Ch(b, j) = "\\"
    /\ k = m \/ Ch(b, m - k) # "\\"

Introduces(b, i) == i >= 1 /\ BackslashRun(b, i) % 2 = 1

\* The body of a string lexeme (between the quotes) is well escaped.
WellEscaped(b) ==
  \A i \in 1..Len(b) :
    /\ Introduces(b, i) => i < Len(b) /\ Ch(b, i + 1) \in {"\"", "\\", "n"}
    /\ Ch(b, i) = "\"" => Introduces(b, i - 1)
    /\ Ch(b, i) # "\n"

\* The string a well escaped body stands for (the body is cut in two where
\* no escape is split).
RECURSIVE Unescape(_)
Unescape(b) ==
  IF Len(b) <= 1 THEN b
  ELSE IF Len(b) = 2
  THEN (IF Ch(b, 1) = "\\" THEN (IF Ch(b, 2) = "n" THEN "\n" ELSE Ch(b, 2)) ELSE b)
  ELSE LET m0 == Len(b) \div 2
           m == IF Introduces(b, m0) THEN m0 + 1 ELSE m0
       IN Unescape(SubSeq(b, 1, m)) \o Unescape(SubSeq(b, m + 1, Len(b)))

IsStrLexeme(t) ==
  /\ Len(t) >= 2
  /\ Ch(t, 1) = "\""
  /\ Ch(t, Len(t)) = "\""
  /\ Special(SubSeq(t, 2, Len(t) - 1)) = {} \/ WellEscaped(SubSeq(t, 2, Len(t) - 1))

StrOfLexeme(t) ==
  IF Special(SubSeq(t, 2, Len(t) - 1)) = {}
  THEN SubSeq(t, 2, Len(t) - 1)
  ELSE Unescape(SubSeq(t, 2, Len(t) - 1))

Failed == [ok |-> FALSE, val |-> <<"none">>, next |-> 0]
Parsed(v, n) == [ok |-> TRUE, val |-> v, next |-> n]

\* Python's dict construction while decoding: a repeated key keeps its first
\* position and takes the last value.
RECURSIVE ParseValue(_, _), ParseItems(_, _, _), ParseMembers(_, _, _)
ParseValue(toks, i) ==
  IF i > Len(toks) THEN Failed
  ELSE LET t == toks[i]
       IN IF t = "[" THEN
            (IF i + 1 <= Len(toks) /\ toks[i + 1] = "]"
             THEN Parsed(JList(<<>>), i + 2)
             ELSE ParseItems(toks, i + 1, <<>>))
          ELSE IF t = "{" THEN
            (IF i + 1 <= Len(toks) /\ toks[i + 1] = "}"
             THEN Parsed(JDict(<<>>), i + 2)
             ELSE ParseMembers(toks, i + 1, JDict(<<>>)))
          ELSE IF IsStrLexeme(t) THEN Parsed(JStr(StrOfLexeme(t)), i + 1)
          ELSE IF IsDigits(t) THEN Parsed(JInt(IntOf(t)), i + 1)
          ELSE Failed

ParseItems(toks, i, acc) ==
  LET r == ParseValue(toks, i)
  IN IF ~r.ok \/ r.next > Len(toks) THEN Failed
     ELSE IF toks[r.next] = "]" THEN Parsed(JList(Append(acc, r.val)), r.next + 1)
     ELSE IF toks[r.next] = "," THEN ParseItems(toks, r.next + 1, Append(acc, r.val))
     ELSE Failed

ParseMembers(toks, i, acc) ==
  IF i + 1 > Len(toks) \/ ~IsStrLexeme(toks[i]) \/ toks[i + 1] # ":" THEN Failed
  ELSE LET r == ParseValue(toks, i + 2)
       IN IF ~r.ok \/ r.next > Len(toks) THEN Failed
          ELSE LET d == Put(acc, StrOfLexeme(toks[i]), r.val)
               IN IF toks[r.next] = "}" THEN Parsed(d, r.next + 1)
                  ELSE IF toks[r.next] = "," THEN ParseMembers(toks, r.next + 1, d)
                  ELSE Failed

\* json.load / json.loads on a lexeme sequence: ok = FALSE is JSONDecodeError
\* (also on an empty text and on extra data after the value).
json_load(toks) ==
  LET r == ParseValue(toks, 1)
  IN IF r.ok /\ r.next = Len(toks) + 1 THEN r ELSE Failed

\* json.loads on a text: the lexemes are cut out of the characters first.
JsonPunct == {"{", "}", "[", "]", ":", ","}

RECURSIVE StrEnd(_, _)
StrEnd(text, j) ==
  IF j > Len(text) THEN 0
  ELSE IF Ch(text, j) = "\\" THEN StrEnd(text, j + 2)
  ELSE IF Ch(text, j) = "\"" THEN j
  ELSE StrEnd(text, j + 1)

RECURSIVE DigitsEnd(_, _)
DigitsEnd(text, j) ==
  IF j + 1 <= Len(text) /\ Ch(text, j + 1) \in DigitSet
  THEN DigitsEnd(text, j + 1) ELSE j

RECURSIVE SkipSpace(_, _)
SkipSpace(text, i) ==
  IF i <= Len(text) /\ Ch(text, i) \in Whitespace THEN SkipSpace(text, i + 1) ELSE i

RECURSIVE Lex(_, _, _)
Lex(text, i0, acc) ==
  LET i == SkipSpace(text, i0)
  IN IF i > Len(text) THEN [ok |-> TRUE, toks |-> acc]
     ELSE IF Ch(text, i) \in JsonPunct THEN Lex(text, i + 1, Append(acc, Ch(text, i)))
     ELSE IF Ch(text, i) = "\"" /\ StrEnd(text, i + 1) # 0
     THEN Lex(text, StrEnd(text, i + 1) + 1, Append(acc, SubSeq(text, i, StrEnd(text, i + 1))))
     ELSE IF Ch(text, i) \in DigitSet
     THEN Lex(text, DigitsEnd(text, i) + 1, Append(acc, SubSeq(text, i, DigitsEnd(text, i))))
     ELSE [ok |-> FALSE, toks |-> <<>>]

json_loads(text) ==
  LET l == Lex(text, 1, <<>>)
  IN IF l.ok THEN json_load(l.toks) ELSE Failed

(***************************************************************************)
(* Python's str() and repr() of a value, as used by an f-string.           *)
(***************************************************************************)
RECURSIVE ReprBody(_)
ReprBody(s) ==
  IF Len(s) = 0 THEN ""
  ELSE IF Len(s) = 1 THEN (IF s = "\\" THEN "\\\\" ELSE IF s = "\n" THEN "\\n" ELSE s)
  ELSE ReprBody(SubSeq(s, 1, Len(s) \div 2)) \o ReprBody(SubSeq(s, Len(s) \div 2 + 1, Len(s)))

ReprStr(s) ==
  IF Contains(s, "'") /\ ~Contains(s, "\"")
  THEN "\"" \o ReprBody(s) \o "\""
  ELSE "'" \o ReprBody(s) \o "'"

RECURSIVE repr(_), ReprItems(_), ReprMembers(_)
repr(v) ==
  CASE v[1] = "str" -> ReprStr(v[2])
    [] v[1] = "int" -> DigitsOf(v[2])
    [] v[1] = "list" -> "[" \o ReprItems(v[2]) \o "]"
    [] v[1] = "dict" -> "{" \o ReprMembers(v[2]) \o "}"

ReprItems(xs) ==
  IF xs = <<>> THEN ""
  ELSE repr(Head(xs)) \o (IF Len(xs) > 1 THEN ", " ELSE "") \o ReprItems(Tail(xs))

ReprMembers(kvs) ==
  IF kvs = <<>> THEN ""
  ELSE ReprStr(Head(kvs)[1]) \o ": " \o repr(Head(kvs)[2])
         \o (IF Len(kvs) > 1 THEN ", " ELSE "") \o ReprMembers(Tail(kvs))

str(v) == IF IsStr(v) THEN v[2] ELSE repr(v)

(***************************************************************************)
(* The store: {"notes": [...], "classes": {...}} in data/notes.json.       *)
(***************************************************************************)
EmptyStore == JDict(<< <<"notes", JList(<<>>)>>, <<"classes", JDict(<<>>)>> >>)

NoFile == [exists |-> FALSE, toks |-> <<>>]
FileOf(toks) == [exists |-> TRUE, toks |-> toks]

\* A faulty variant of _load_notes: the file is never read.
_load_notes_fresh(f) == [notes |-> EmptyStore, warned |-> FALSE]

\* NoteManager._load_notes / SBNotesWeb._load_notes: the loaded store and
\* whether the corruption warning was printed.  The file is only read.
_load_notes(f) ==
  IF f.exists
  THEN LET r == json_load(f.toks)
       IN IF r.ok THEN [notes |-> r.val, warned |-> FALSE]
          ELSE [notes |-> EmptyStore, warned |-> TRUE]
  ELSE [notes |-> EmptyStore, warned |-> FALSE]

\* A faulty variant of _save_notes: the store is written without its last
\* note (the save runs before the append).
_save_notes_stale(notes) ==
  LET ns == Get(notes, "notes")[2]
  IN FileOf(json_dump(Put(notes, "notes", JList(SubSeq(ns, 1, Len(ns) - 1)))))

\* NoteManager._save_notes / SBNotesWeb._save_notes: the new file content.
_save_notes(notes) == FileOf(json_dump(notes))

NotesOf(store) == Get(store, "notes")[2]
ClassesOf(store) == Get(store, "classes")

(***************************************************************************)
(* The environment: the user's files, the clock and the AI service.        *)
(***************************************************************************)
Terminal == "terminal"
Web == "web"
Procs == {Terminal, Web}

NoteTypes == {"Notes", "Homework", "Study Prep", "Exam", "Other"}

\* A PDF: PyPDF2 either raises on it or yields the text layer of its pages.
HwPage == "Limits: the derivative of x^2 is 2x, and of sin is cos."
HwPdf == [raises |-> FALSE, pages |-> <<HwPage, "  ">>]
ScanPdf == [raises |-> FALSE, pages |-> <<"", "p. 1">>]
BadPdf == [raises |-> TRUE, pages |-> <<>>]
\* Text layers of exactly 50 and of 51 characters between the blanks.
FiftyChars == "x^2+y^2=r^2;x^2+y^2=r^2;x^2+y^2=r^2;x^2+y^2=r^2;xy"
FiftyPdf == [raises |-> FALSE, pages |-> <<" " \o FiftyChars>>]
FiftyOnePdf == [raises |-> FALSE, pages |-> <<" " \o FiftyChars \o "z">>]
BlankPdf == [raises |-> FALSE, pages |-> <<" ", "">>]
\* The message of the exception PyPDF2 raises on a file it cannot read.
PdfError == "EOF marker not found"

UserDisk ==
  ("hw.pdf" :> HwPdf) @@ ("scan.PDF" :> ScanPdf) @@ ("bad.pdf" :> BadPdf)
    @@ ("notes.txt" :> HwPdf) @@ ("fifty.pdf" :> FiftyPdf) @@ ("fiftyone.pdf" :> FiftyOnePdf)
    @@ ("blank.pdf" :> BlankPdf)

\* An answer of the vision call or of the analysis call is a record
\* [raises, text]: the call raises (text is then the exception message) or
\* returns a text.
\* The Markdown code fence.  A TLA+ string cannot hold a backquote, so the
\* model writes the fence with the character ' in its place.
Fence == "'''"
FenceJson == Fence \o "json"

ObjectAnswer ==
  FenceJson \o "\n{\"summary\": \"Covers the Chain rule\", \"key_topics\": [\"limits\", \"slopes\"], "
    \o "\"important_concepts\": [], \"difficulty_level\": \"Beginner\", "
    \o "\"estimated_study_time\": \"1 hour\", \"related_topics\": [], "
    \o "\"transcription_quality\": \"Good\"}\n" \o Fence

\* datetime.now().isoformat(): local time, which may repeat or step back.
isoformat(t) == "2025-01-0" \o DigitsOf(t)

(***************************************************************************)
(* Console output of the terminal front end.  console.print reads its      *)
(* argument as rich markup: a closing tag [/name] without its opening tag  *)
(* makes it raise MarkupError, whose message quotes the tag.  The messages *)
(* of the code are wrapped in one pair of tags, so a closing tag inside    *)
(* the interpolated text is never matched.  The web front end prints with  *)
(* st.error and st.warning, which do not raise.                            *)
(***************************************************************************)
\* The positions where a closing tag starts in text, and where that tag ends.
TagStarts(text) ==
  {i \in 1..Len(text) - 2 :
     /\ Ch(text, i) = "[" /\ Ch(text, i + 1) = "/"
     /\ \E j \in i + 2..Len(text) :
          /\ Ch(text, j) = "]"
          /\ \A k \in i + 1..j - 1 : Ch(text, k) \notin {"[", "]"}}

MarkupRaises(text) == TagStarts(text) # {}

MarkupError(text) ==
  LET i == CHOOSE x \in TagStarts(text) : \A y \in TagStarts(text) : x <= y
      j == CHOOSE x \in i + 2..Len(text) :
             Ch(text, x) = "]" /\ \A k \in i + 2..x - 1 : Ch(text, k) # "]"
  IN "closing tag '" \o SubSeq(text, i, j) \o "' doesn't match any open tag"

\* What a call gives its caller: a text, or an exception with its message;
\* vision counts the vision calls made.
Return(text, vision) == [raised |-> FALSE, text |-> text, exc |-> "", vision |-> vision]
Raise(exc, vision) == [raised |-> TRUE, text |-> "", exc |-> exc, vision |-> vision]

(***************************************************************************)
(* Text extraction.  The two front ends differ in how they print.          *)
(***************************************************************************)
\* A faulty variant of _extract_text_with_vision: a failed call is made again.
_extract_text_with_vision_retry(p, v) ==
  IF v.raises
  THEN IF p = Terminal /\ MarkupRaises(v.text)
       THEN Raise(MarkupError(v.text), 2)
       ELSE Return("PDF document processing failed: " \o v.text, 2)
  ELSE Return(v.text, 1)

\* _extract_text_with_vision of front end p: one call; a failure is printed
\* and becomes a string.
_extract_text_with_vision(p, v) ==
  IF v.raises
  THEN IF p = Terminal /\ MarkupRaises(v.text)
       THEN Raise(MarkupError(v.text), 1)
       ELSE Return("PDF document processing failed: " \o v.text, 1)
  ELSE Return(v.text, 1)

RECURSIVE PagesText(_)
PagesText(pages) ==
  IF pages = <<>> THEN ""
  ELSE (IF strip(Head(pages)) # "" THEN Head(pages) \o "\n" ELSE "")
         \o PagesText(Tail(pages))

SubstantialLen == 50

\* The except branch of _extract_text_from_pdf, entered with the message exc
\* after `calls` vision calls: print the message, then call the vision.
ExtractHandler(p, v, exc, calls) ==
  IF p = Terminal /\ MarkupRaises(exc)
  THEN Raise(MarkupError(exc), calls)
  ELSE [_extract_text_with_vision(p, v) EXCEPT !.vision = calls + @]

\* A faulty variant of _extract_text_from_pdf: >= in place of >.
_extract_text_from_pdf_ge(p, pdf, v) ==
  IF pdf.raises THEN ExtractHandler(p, v, PdfError, 0)
  ELSE LET text == PagesText(pdf.pages)
       IN IF Len(strip(text)) >= SubstantialLen
          THEN Return(text, 0)
          ELSE LET r == _extract_text_with_vision(p, v)
               IN IF r.raised THEN ExtractHandler(p, v, r.exc, 1) ELSE r

\* _extract_text_from_pdf of front end p.  The vision call of the normal
\* path is inside the try block.
_extract_text_from_pdf(p, pdf, v) ==
  IF pdf.raises THEN ExtractHandler(p, v, PdfError, 0)
  ELSE LET text == PagesText(pdf.pages)
       IN IF Len(strip(text)) > SubstantialLen
          THEN Return(text, 0)
          ELSE LET r == _extract_text_with_vision(p, v)
               IN IF r.raised THEN ExtractHandler(p, v, r.exc, 1) ELSE r

(***************************************************************************)
(* AI analysis.                                                            *)
(***************************************************************************)
FallbackAnalysis(text) ==
  JDict(<< <<"summary", JStr(Prefix(text, 200) \o "...")>>,
           <<"key_topics", JList(<<JStr("Extracted from AI analysis")>>)>>,
           <<"important_concepts", JList(<<JStr("See full analysis")>>)>>,
           <<"difficulty_level", JStr("Unknown")>>,
           <<"estimated_study_time", JStr("Unknown")>>,
           <<"related_topics", JList(<<>>)>>,
           <<"transcription_quality", JStr("Unknown")>> >>)

FailedAnalysis ==
  JDict(<< <<"summary", JStr("AI analysis failed")>>,
           <<"key_topics", JList(<<>>)>>,
           <<"important_concepts", JList(<<>>)>>,
           <<"difficulty_level", JStr("Unknown")>>,
           <<"estimated_study_time", JStr("Unknown")>>,
           <<"related_topics", JList(<<>>)>>,
           <<"transcription_quality", JStr("Failed")>> >>)

\* The value _analyze_notes_with_ai returns when it returns.
AnalysisValue(a) ==
  IF a.raises THEN FailedAnalysis
  ELSE LET t0 == strip(a.text)
           t1 == IF startswith(t0, FenceJson) THEN SubSeq(t0, 8, Len(t0)) ELSE t0
           t2 == IF endswith(t1, Fence) THEN SubSeq(t1, 1, Len(t1) - 3) ELSE t1
           r == json_loads(strip(t2))
       IN IF r.ok THEN r.val ELSE FallbackAnalysis(a.text)

\* _analyze_notes_with_ai of front end p: one call; a failure is printed and
\* becomes the "AI analysis failed" record.
_analyze_notes_with_ai(p, a) ==
  IF a.raises /\ p = Terminal /\ MarkupRaises(a.text)
  THEN [raised |-> TRUE, val |-> <<"none">>, exc |-> MarkupError(a.text)]
  ELSE [raised |-> FALSE, val |-> AnalysisValue(a), exc |-> ""]

(***************************************************************************)
(* The record of one operation: who ran it, its inputs, the messages it    *)
(* printed, the notes it matched and displayed, whether it ended in an     *)
(* uncaught exception, the steps it went through, the AI calls it made,    *)
(* the text the extraction returned, and the answers the AI calls got.     *)
(***************************************************************************)
NoOut ==
  [proc |-> "", op |-> "", path |-> "", class |-> "", type |-> "", term |-> "",
   msgs |-> <<>>, results |-> <<>>, shown |-> <<>>, raised |-> FALSE, steps |-> <<>>,
   vision |-> 0, analysis |-> 0, text |-> "",
   v |-> [raises |-> FALSE, text |-> ""], a |-> [raises |-> FALSE, text |-> ""]]

(***************************************************************************)
(* Upload.                                                                 *)
(***************************************************************************)
\* Path.suffix: from the last dot of the name, "" without a dot.
RECURSIVE suffix(_)
suffix(path) ==
  IF ~Contains(path, ".") THEN ""
  ELSE IF Contains(Tail(path), ".") THEN suffix(Tail(path))
  ELSE IF Ch(path, 1) = "." THEN path ELSE suffix(Tail(path))

\* The note entry built by upload_notes.
\* A faulty variant of note_entry: the id is the class name, without the
\* timestamp.
note_entry_class_id(note_id, class_name, note_type, timestamp, upload_path, analysis, text) ==
  JDict(<< <<"id", JStr(class_name)>>,
           <<"class_name", JStr(class_name)>>,
           <<"note_type", JStr(note_type)>>,
           <<"upload_date", JStr(timestamp)>>,
           <<"file_path", JStr(upload_path)>>,
           <<"analysis", analysis>>,
           <<"text_preview", JStr(IF Len(text) > 500 THEN Prefix(text, 500) \o "..." ELSE text)>> >>)

note_entry(note_id, class_name, note_type, timestamp, upload_path, analysis, text) ==
  JDict(<< <<"id", JStr(note_id)>>,
           <<"class_name", JStr(class_name)>>,
           <<"note_type", JStr(note_type)>>,
           <<"upload_date", JStr(timestamp)>>,
           <<"file_path", JStr(upload_path)>>,
           <<"analysis", analysis>>,
           <<"text_preview", JStr(IF Len(text) > 500 THEN Prefix(text, 500) \o "..." ELSE text)>> >>)

\* A faulty variant of NewClass: the new aggregate already counts its note.
NewClassCounted(timestamp) ==
  JDict(<< <<"total_notes", JInt(1)>>,
           <<"note_types", JDict(<<>>)>>,
           <<"last_updated", JStr(timestamp)>> >>)

NewClass(timestamp) ==
  JDict(<< <<"total_notes", JInt(0)>>,
           <<"note_types", JDict(<<>>)>>,
           <<"last_updated", JStr(timestamp)>> >>)

\* A faulty variant of update_class: total_notes = 1 in place of += 1.
update_class_reset(classes, class_name, note_type, timestamp) ==
  LET c1 == IF ~Has(classes, class_name)
            THEN Put(classes, class_name,
                     JDict(<< <<"total_notes", JInt(0)>>,
                              <<"note_types", JDict(<<>>)>>,
                              <<"last_updated", JStr(timestamp)>> >>))
            ELSE classes
      a0 == Get(c1, class_name)
      a1 == Put(a0, "total_notes", JInt(1))
      nt == Get(a1, "note_types")
      a2 == Put(a1, "note_types", Put(nt, note_type, JInt(GetOr(nt, note_type, JInt(0))[2] + 1)))
      a3 == Put(a2, "last_updated", JStr(timestamp))
  IN Put(c1, class_name, a3)

\* A faulty variant of update_class: note_types[note_type] = 1 in place of
\* get(note_type, 0) + 1.
update_class_type_reset(classes, class_name, note_type, timestamp) ==
  LET c1 == IF ~Has(classes, class_name)
            THEN Put(classes, class_name,
                     JDict(<< <<"total_notes", JInt(0)>>,
                              <<"note_types", JDict(<<>>)>>,
                              <<"last_updated", JStr(timestamp)>> >>))
            ELSE classes
      a0 == Get(c1, class_name)
      a1 == Put(a0, "total_notes", JInt(Get(a0, "total_notes")[2] + 1))
      nt == Get(a1, "note_types")
      a2 == Put(a1, "note_types", Put(nt, note_type, JInt(1)))
      a3 == Put(a2, "last_updated", JStr(timestamp))
  IN Put(c1, class_name, a3)

\* "Update class information": create the aggregate on first use, then count.
update_class(classes, class_name, note_type, timestamp) ==
  LET c1 == IF ~Has(classes, class_name)
            THEN Put(classes, class_name, NewClass(timestamp)) ELSE classes
      a0 == Get(c1, class_name)
      a1 == Put(a0, "total_notes", JInt(Get(a0, "total_notes")[2] + 1))
      nt == Get(a1, "note_types")
      a2 == Put(a1, "note_types", Put(nt, note_type, JInt(GetOr(nt, note_type, JInt(0))[2] + 1)))
      a3 == Put(a2, "last_updated", JStr(timestamp))
  IN Put(c1, class_name, a3)

\* A faulty variant of add_note: insert(0, entry) in place of append(entry).
add_note_first(notes, entry, class_name, note_type, timestamp) ==
  LET n1 == Put(notes, "notes", JList(<<entry>> \o NotesOf(notes)))
  IN Put(n1, "classes", update_class(ClassesOf(n1), class_name, note_type, timestamp))

\* "Add to notes list" and "Update class information".
add_note(notes, entry, class_name, note_type, timestamp) ==
  LET n1 == Put(notes, "notes", JList(Append(NotesOf(notes), entry)))
  IN Put(n1, "classes", update_class(ClassesOf(n1), class_name, note_type, timestamp))

DirWrite(dir, path, content) == (path :> content) @@ dir

Aborted(notes, ups, msg, steps, vision, text) ==
  [notes |-> notes, uploads |-> ups, saved |-> FALSE, msgs |-> <<msg>>,
   raised |-> FALSE, steps |-> steps, vision |-> vision, analysis |-> 0,
   text |-> text]

\* The upload ended in an exception nothing caught.
Crashed(notes, ups, steps, vision, analysis, text) ==
  [notes |-> notes, uploads |-> ups, saved |-> FALSE, msgs |-> <<>>,
   raised |-> TRUE, steps |-> steps, vision |-> vision, analysis |-> analysis,
   text |-> text]

\* The two lines NoteManager.upload_notes prints after the save; each is
\* markup, and analysis.get raises when the analysis is not a dict.
SuccessLines(class_name, analysis) ==
  IF MarkupRaises(class_name) THEN <<>>
  ELSE <<"Successfully uploaded notes">>
         \o (IF IsDict(analysis)
                /\ ~MarkupRaises(str(GetOr(analysis, "summary", JStr("No summary available"))))
             THEN <<"Summary: " \o str(GetOr(analysis, "summary", JStr("No summary available")))>>
             ELSE <<>>)

\* NoteManager.upload_notes.
upload_notes(notes, ups, pdf_path, class_name, note_type, v, a, now) ==
  IF pdf_path \notin DOMAIN UserDisk
  THEN Aborted(notes, ups, "Error: File not found", <<"validate">>, 0, "")
  ELSE IF lower(suffix(pdf_path)) # ".pdf"
  THEN Aborted(notes, ups, "Error: File must be a PDF", <<"validate">>, 0, "")
  ELSE LET e == _extract_text_from_pdf(Terminal, UserDisk[pdf_path], v)
       IN IF e.raised
          THEN Crashed(notes, ups, <<"validate", "extract">>, e.vision, 0, "")
          ELSE IF strip(e.text) = ""
          THEN Aborted(notes, ups, "Error: Could not extract text from PDF",
                       <<"validate", "extract">>, e.vision, e.text)
          ELSE LET an == _analyze_notes_with_ai(Terminal, a)
                   analysis == an.val
                   timestamp == isoformat(now)
                   note_id == class_name \o "_" \o timestamp
                   upload_path == "uploads/" \o note_id \o ".pdf"
                   entry == note_entry(note_id, class_name, note_type, timestamp,
                                       upload_path, analysis, e.text)
               IN IF an.raised
                  THEN Crashed(notes, ups, <<"validate", "extract", "analyze">>,
                               e.vision, 1, e.text)
                  ELSE [notes |-> add_note(notes, entry, class_name, note_type, timestamp),
                        uploads |-> DirWrite(ups, upload_path, UserDisk[pdf_path]),
                        saved |-> TRUE,
                        msgs |-> SuccessLines(class_name, analysis),
                        raised |-> Len(SuccessLines(class_name, analysis)) < 2,
                        steps |-> <<"validate", "extract", "analyze", "copy", "append", "save">>,
                        vision |-> e.vision, analysis |-> 1, text |-> e.text]

\* SBNotesWeb.upload_notes, the body under the "Upload & Analyze" button; the
\* uploaded file is one the file_uploader accepted.  The analysis display
\* after the save raises when the analysis is not a dict (analysis.get) or
\* its transcription_quality is not a string (quality.lower()).
web_upload_notes(notes, ups, uploaded_file, class_name, note_type, v, a, now) ==
  IF class_name = ""
  THEN Aborted(notes, ups, "Please enter a class name", <<"validate">>, 0, "")
  ELSE LET timestamp == isoformat(now)
           note_id == class_name \o "_" \o timestamp
           upload_path == "uploads/" \o note_id \o ".pdf"
           ups1 == DirWrite(ups, upload_path, UserDisk[uploaded_file])
           e == _extract_text_from_pdf(Web, ups1[upload_path], v)
       IN IF e.raised
          THEN Crashed(notes, ups1, <<"validate", "copy", "extract">>, e.vision, 0, "")
          ELSE IF strip(e.text) = ""
          THEN Aborted(notes, ups1, "Could not extract text from PDF",
                       <<"validate", "copy", "extract">>, e.vision, e.text)
          ELSE LET an == _analyze_notes_with_ai(Web, a)
                   analysis == an.val
                   entry == note_entry(note_id, class_name, note_type, timestamp,
                                       upload_path, analysis, e.text)
               IN IF an.raised
                  THEN Crashed(notes, ups1, <<"validate", "copy", "extract", "analyze">>,
                               e.vision, 1, e.text)
                  ELSE [notes |-> add_note(notes, entry, class_name, note_type, timestamp),
                        uploads |-> ups1,
                        saved |-> TRUE,
                        msgs |-> <<"Successfully uploaded and analyzed notes!">>,
                        raised |-> \/ ~IsDict(analysis)
                                   \/ ~IsStr(GetOr(analysis, "transcription_quality", JStr("Unknown"))),
                        steps |-> <<"validate", "copy", "extract", "analyze", "append", "save">>,
                        vision |-> e.vision, analysis |-> 1, text |-> e.text]

(***************************************************************************)
(* Search and view.                                                        *)
(***************************************************************************)
AnalysisOf(note) == Get(note, "analysis")
SummaryOf(note, default) == GetOr(AnalysisOf(note), "summary", JStr(default))
ClassNameOf(note) == Get(note, "class_name")[2]
NoteTypeOf(note) == Get(note, "note_type")[2]
DateOf(note) == Get(note, "upload_date")[2]

\* Code points of the printable ASCII characters, in order.
Ascii ==
  " !\"#$%&'()*+,-./0123456789:;<=>?@ABCDEFGHIJKLMNOPQRSTUVWXYZ[\\]^_"
    \o "abcdefghijklmnopqrstuvwxyz{|}~"

AsciiSet == {Ch(Ascii, i) : i \in 1..Len(Ascii)}
CodeOf == [c \in AsciiSet |-> CHOOSE i \in 1..Len(Ascii) : Ch(Ascii, i) = c]

\* Python's a < b on strings.
RECURSIVE StrLess(_, _)
StrLess(a, b) ==
  IF b = "" THEN FALSE
  ELSE IF a = "" THEN TRUE
  ELSE IF Ch(a, 1) = Ch(b, 1) THEN StrLess(Tail(a), Tail(b))
  ELSE CodeOf[Ch(a, 1)] < CodeOf[Ch(b, 1)]

\* sorted(notes, key=upload_date, reverse=desc): a stable sort.
RECURSIVE SortByDate(_, _)
SortByDate(ns, desc) ==
  IF ns = <<>> THEN <<>>
  ELSE LET n == ns[Len(ns)]
           done == SortByDate(SubSeq(ns, 1, Len(ns) - 1), desc)
           Before(e) == IF desc THEN StrLess(DateOf(e), DateOf(n))
                        ELSE StrLess(DateOf(n), DateOf(e))
           pos == Cardinality({i \in 1..Len(done) : ~Before(done[i])})
       IN SubSeq(done, 1, pos) \o <<n>> \o SubSeq(done, pos + 1, Len(done))

DisplayLimit == 10

\* The text one note is searched in (NoteManager.search_notes).
searchable_text(note) ==
  str(Get(note, "class_name")) \o " " \o str(Get(note, "note_type")) \o " "
    \o str(SummaryOf(note, "")) \o " "
    \o str(GetOr(AnalysisOf(note), "key_topics", JList(<<>>)))

QueryResult(results, shown, msgs, raised) ==
  [results |-> results, shown |-> shown, msgs |-> msgs, raised |-> raised]

\* NoteManager.search_notes.  note['analysis'].get raises on an analysis
\* that is not a dict, and a table row on a summary that is not a string;
\* the table is printed after the last row.
search_notes(notes, search_term) ==
  LET ns == NotesOf(notes)
      Match(note) == Contains(lower(searchable_text(note)), lower(search_term))
  IN IF \E i \in 1..Len(ns) : ~IsDict(AnalysisOf(ns[i]))
     THEN QueryResult(<<>>, <<>>, <<>>, TRUE)
     ELSE LET results == SelectSeq(ns, Match)
              rows == SubSeq(results, 1, IF Len(results) < DisplayLimit
                                         THEN Len(results) ELSE DisplayLimit)
          IN IF results = <<>>
             THEN QueryResult(results, <<>>, <<"No notes found matching your search">>, FALSE)
             ELSE IF \E i \in 1..Len(rows) : ~IsStr(SummaryOf(rows[i], "No summary"))
             THEN QueryResult(results, <<>>, <<>>, TRUE)
             ELSE QueryResult(results, rows, <<"Search Results">>, FALSE)

\* NoteManager._view_class_notes.
_view_class_notes(notes, class_name) ==
  LET IsClass(note) == Get(note, "class_name") = JStr(class_name)
      class_notes == SelectSeq(NotesOf(notes), IsClass)
      rows == SortByDate(class_notes, TRUE)
  IN IF \E i \in 1..Len(rows) :
          ~IsDict(AnalysisOf(rows[i])) \/ ~IsStr(SummaryOf(rows[i], "No summary"))
     THEN QueryResult(class_notes, <<>>, <<"Classes Overview">>, TRUE)
     ELSE QueryResult(class_notes, rows, <<"Classes Overview", "Notes for class">>, FALSE)

\* NoteManager.view_notes.
view_notes(notes, class_name) ==
  IF NotesOf(notes) = <<>>
  THEN QueryResult(<<>>, <<>>, <<"No notes uploaded yet">>, FALSE)
  ELSE IF class_name # "" /\ Has(ClassesOf(notes), class_name)
  THEN _view_class_notes(notes, class_name)
  ELSE QueryResult(<<>>, <<>>, <<"Classes Overview">>, FALSE)

\* The search filter of SBNotesWeb.view_notes on one note: `or` stops at the
\* first operand that is true, so the summary is read only when neither the
\* class name nor the note type matches.
WebHit(note, search_term) ==
  \/ Contains(lower(ClassNameOf(note)), lower(search_term))
  \/ Contains(lower(NoteTypeOf(note)), lower(search_term))

WebRaises(note, search_term) ==
  /\ ~WebHit(note, search_term)
  /\ ~IsDict(AnalysisOf(note)) \/ ~IsStr(SummaryOf(note, ""))

WebMatch(note, search_term) ==
  \/ WebHit(note, search_term)
  \/ Contains(lower(SummaryOf(note, "")[2]), lower(search_term))

\* SBNotesWeb.view_notes.  The expanders are rendered one by one, so the
\* notes before one with an analysis that is not a dict are displayed.
web_view_notes(notes, class_filter, type_filter, search_term) ==
  LET ns == NotesOf(notes)
      InClass(note) == ClassNameOf(note) = class_filter
      OfType(note) == NoteTypeOf(note) = type_filter
      Match(note) == WebMatch(note, search_term)
      f1 == IF class_filter # "All Classes" THEN SelectSeq(ns, InClass) ELSE ns
      f2 == IF type_filter # "All Types" THEN SelectSeq(f1, OfType) ELSE f1
  IN IF ns = <<>>
     THEN QueryResult(<<>>, <<>>, <<"No notes uploaded yet">>, FALSE)
     ELSE IF search_term # "" /\ \E i \in 1..Len(f2) : WebRaises(f2[i], search_term)
     THEN QueryResult(<<>>, <<>>, <<>>, TRUE)
     ELSE LET filtered_notes == IF search_term # "" THEN SelectSeq(f2, Match) ELSE f2
              bad == {i \in 1..Len(filtered_notes) : ~IsDict(AnalysisOf(filtered_notes[i]))}
              first == IF bad = {} THEN Len(filtered_notes) + 1
                       ELSE CHOOSE i \in bad : \A j \in bad : i <= j
          IN QueryResult(filtered_notes, SubSeq(filtered_notes, 1, first - 1),
                         <<"Notes found">>, bad # {})

(***************************************************************************)
(* Combined PDF generation.  A generated file is the sequence of its       *)
(* parts: <<"divider", note id, day number>> or <<"original", path, "">>.  *)
(***************************************************************************)
OutputPath(class_name) == "generated_pdfs/" \o class_name \o "_combined_notes.pdf"
DividerPath(note) == "generated_pdfs/divider_" \o str(Get(note, "id")) \o ".pdf"
DividerPart(note, day_number) == <<"divider", str(Get(note, "id")), DigitsOf(day_number)>>
OriginalPart(note) == <<"original", Get(note, "file_path")[2], "">>

GenResult(gen, msgs) == [generated |-> gen, msgs |-> msgs]

\* _create_divider_page raises on an analysis that is not a dict and on a
\* summary that cannot be wrapped and printed as text.
DividerRaises(note) ==
  ~IsDict(AnalysisOf(note)) \/ ~IsStr(SummaryOf(note, "No summary available"))

\* The loop of NoteManager._create_class_pdf from note i on, and the final
\* write; an exception leaves the dividers written so far and no output.
RECURSIVE MergeClass(_, _, _, _, _, _, _)
MergeClass(class_notes, i, gen, ups, parts, msgs, output_path) ==
  IF i > Len(class_notes)
  THEN GenResult(DirWrite(gen, output_path, parts),
                 Append(msgs, "Generated combined PDF"))
  ELSE LET note == class_notes[i]
           gen1 == DirWrite(gen, DividerPath(note), <<DividerPart(note, i)>>)
           path == Get(note, "file_path")[2]
       IN IF DividerRaises(note)
          THEN GenResult(gen, Append(msgs, "Error generating PDF"))
          ELSE IF path \notin DOMAIN ups
          THEN MergeClass(class_notes, i + 1, gen1, ups,
                          Append(parts, DividerPart(note, i)),
                          Append(msgs, "Warning: Original PDF not found"), output_path)
          ELSE IF ups[path].raises
          THEN GenResult(gen1, Append(msgs, "Error generating PDF"))
          ELSE MergeClass(class_notes, i + 1, gen1, ups,
                          parts \o <<DividerPart(note, i), OriginalPart(note)>>,
                          msgs, output_path)

\* NoteManager._create_class_pdf.
_create_class_pdf(notes, gen, ups, class_name) ==
  LET IsClass(note) == Get(note, "class_name") = JStr(class_name)
      class_notes == SelectSeq(NotesOf(notes), IsClass)
  IN IF class_notes = <<>>
     THEN GenResult(gen, <<"No notes found for class">>)
     ELSE MergeClass(SortByDate(class_notes, FALSE), 1, gen, ups, <<>>, <<>>,
                     OutputPath(class_name))

ClassList(notes) == [i \in 1..Len(ClassesOf(notes)[2]) |-> ClassesOf(notes)[2][i][1]]

\* NoteManager.generate_class_pdf, with the number typed at the prompt.
generate_class_pdf(notes, gen, ups, choice) ==
  IF ClassList(notes) = <<>>
  THEN GenResult(gen, <<"No classes available">>)
  ELSE IF choice \in 1..Len(ClassList(notes))
  THEN _create_class_pdf(notes, gen, ups, ClassList(notes)[choice])
  ELSE GenResult(gen, <<"Invalid selection">>)

\* The loop of SBNotesWeb.generate_pdf from note i on, and the final write.
RECURSIVE WebMerge(_, _, _, _, _, _, _)
WebMerge(class_notes, i, gen, ups, parts, msgs, output_path) ==
  IF i > Len(class_notes)
  THEN GenResult(DirWrite(gen, output_path, parts),
                 Append(msgs, "Generated combined PDF"))
  ELSE LET note == class_notes[i]
           path == Get(note, "file_path")[2]
       IN IF path \notin DOMAIN ups
          THEN WebMerge(class_notes, i + 1, gen, ups, parts,
                        Append(msgs, "Original PDF not found"), output_path)
          ELSE IF ups[path].raises
          THEN GenResult(gen, Append(msgs, "Error generating PDF"))
          ELSE WebMerge(class_notes, i + 1, gen, ups,
                        Append(parts, OriginalPart(note)), msgs, output_path)

\* SBNotesWeb.generate_pdf with the "Generate Combined PDF" button pressed.
generate_pdf(notes, gen, ups, selected_class) ==
  LET IsClass(note) == Get(note, "class_name") = JStr(selected_class)
      class_notes == SelectSeq(NotesOf(notes), IsClass)
  IN IF ClassList(notes) = <<>>
     THEN GenResult(gen, <<"No classes available">>)
     ELSE IF selected_class = ""
     THEN GenResult(gen, <<>>)
     ELSE WebMerge(class_notes, 1, gen, ups, <<>>, <<"Found notes for this class">>,
                   OutputPath(selected_class))

(***************************************************************************)
(* State.                                                                  *)
(***************************************************************************)
VARIABLES
  running,    \* the front ends of this run: a subset of Procs
  alive,      \* the front ends whose process is up (a subset of running)
  mem,        \* mem[p]: self.notes of front end p
  file,       \* data/notes.json
  uploads,    \* the uploads directory: path -> PDF
  generated,  \* the generated_pdfs directory: path -> content
  out,        \* the record of the last operation
  acked,      \* the <<front end, note entry>> pairs whose upload reported success
  writing     \* writing[p]: how far an upload of front end p has got when
              \* its steps are taken one by one, and its record so far

vars == <<running, alive, mem, file, uploads, generated, out, acked, writing>>

\* No upload of the front end is under way.
Idle == [phase |-> "idle", out |-> NoOut]

InitWith(procs, f) ==
  /\ running = procs
  /\ alive = procs
  /\ file = f
  /\ mem = [p \in Procs |-> _load_notes(f).notes]
  /\ uploads = <<>>
  /\ generated = <<>>
  /\ out = NoOut
  /\ acked = {}
  /\ writing = [p \in Procs |-> Idle]

\* One front end, started on a machine without a store.
Init == \E p \in Procs : InitWith({p}, NoFile)

LastNote(notes) == NotesOf(notes)[Len(NotesOf(notes))]

\* Menu choice 1 of NoteManager.run.  An uncaught exception ends the process.
TermUpload(pdf_path, class_name, note_type, v, a, now) ==
  /\ Terminal \in alive
  /\ Len(NotesOf(mem[Terminal])) < MaxNotes
  /\ \E r \in {upload_notes(mem[Terminal], uploads, pdf_path, class_name, note_type, v, a, now)} :
        /\ mem' = [mem EXCEPT ![Terminal] = r.notes]
        /\ uploads' = r.uploads
        /\ file' = IF r.saved THEN _save_notes(r.notes) ELSE file
        /\ alive' = IF r.raised THEN alive \ {Terminal} ELSE alive
        /\ acked' = IF r.saved THEN acked \cup {<<Terminal, LastNote(r.notes)>>} ELSE acked
        /\ out' = [NoOut EXCEPT !.proc = Terminal, !.op = "upload", !.path = pdf_path,
                                !.class = class_name, !.type = note_type,
                                !.msgs = r.msgs, !.raised = r.raised, !.steps = r.steps,
                                !.vision = r.vision, !.analysis = r.analysis,
                                !.text = r.text, !.v = v, !.a = a]
  /\ UNCHANGED <<running, generated, writing>>

\* python sbnotes.py again after the process ended.
TermLaunch ==
  /\ Terminal \in running \ alive
  /\ alive' = alive \cup {Terminal}
  /\ mem' = [mem EXCEPT ![Terminal] = _load_notes(file).notes]
  /\ out' = [NoOut EXCEPT !.proc = Terminal, !.op = "launch",
                          !.msgs = IF _load_notes(file).warned
                                   THEN <<"Warning: Corrupted notes file, starting fresh">>
                                   ELSE <<>>]
  /\ UNCHANGED <<running, file, uploads, generated, acked, writing>>

\* A rerun of the Streamlit script on the upload page with the button
\* pressed: main() builds a new SBNotesWeb, which loads the store, and the
\* page then reads the form (one of `cases`).
WebUpload(cases) ==
  /\ Web \in alive
  /\ \E loaded \in {_load_notes(file).notes} :
       /\ Len(NotesOf(loaded)) < MaxNotes
       /\ \E c \in cases :
          \E r \in {web_upload_notes(loaded, uploads, c.path, c.class, c.type, c.v, c.a, c.now)} :
            /\ mem' = [mem EXCEPT ![Web] = r.notes]
            /\ uploads' = r.uploads
            /\ file' = IF r.saved THEN _save_notes(r.notes) ELSE file
            /\ acked' = IF r.saved THEN acked \cup {<<Web, LastNote(r.notes)>>} ELSE acked
            /\ out' = [NoOut EXCEPT !.proc = Web, !.op = "upload", !.path = c.path,
                                    !.class = c.class, !.type = c.type,
                                    !.msgs = r.msgs, !.raised = r.raised, !.steps = r.steps,
                                    !.vision = r.vision, !.analysis = r.analysis,
                                    !.text = r.text, !.v = c.v, !.a = c.a]
  /\ UNCHANGED <<running, alive, generated, writing>>

\* Menu choice 2.
TermSearch(search_term) ==
  /\ Terminal \in alive
  /\ \E r \in {search_notes(mem[Terminal], search_term)} :
        /\ alive' = IF r.raised THEN alive \ {Terminal} ELSE alive
        /\ out' = [NoOut EXCEPT !.proc = Terminal, !.op = "search", !.term = search_term,
                                !.msgs = r.msgs, !.results = r.results,
                                !.shown = r.shown, !.raised = r.raised]
  /\ UNCHANGED <<running, mem, file, uploads, generated, acked, writing>>

\* Menu choice 3, with the class name typed at the drill-down prompt.
TermView(class_name) ==
  /\ Terminal \in alive
  /\ \E r \in {view_notes(mem[Terminal], class_name)} :
        /\ alive' = IF r.raised THEN alive \ {Terminal} ELSE alive
        /\ out' = [NoOut EXCEPT !.proc = Terminal, !.op = "view", !.class = class_name,
                                !.msgs = r.msgs, !.results = r.results,
                                !.shown = r.shown, !.raised = r.raised]
  /\ UNCHANGED <<running, mem, file, uploads, generated, acked, writing>>

\* Menu choice 4, with the class number typed at the prompt.
TermGenerate(choice) ==
  /\ Terminal \in alive
  /\ \E r \in {generate_class_pdf(mem[Terminal], generated, uploads, choice)} :
        /\ generated' = r.generated
        /\ out' = [NoOut EXCEPT !.proc = Terminal, !.op = "generate",
                                !.class = IF choice \in 1..Len(ClassList(mem[Terminal]))
                                          THEN ClassList(mem[Terminal])[choice] ELSE "",
                                !.msgs = r.msgs]
  /\ UNCHANGED <<running, alive, mem, file, uploads, acked, writing>>

\* A rerun of the script on the "View Notes" page, with the filters and the
\* search box set to one of `inputs`.
WebView(inputs) ==
  /\ Web \in alive
  /\ \E loaded \in {_load_notes(file).notes} :
     \E i \in inputs :
     \E r \in {web_view_notes(loaded, i[1], i[2], i[3])} :
        /\ i[1] \in {"All Classes"} \cup Keys(ClassesOf(loaded))
        /\ mem' = [mem EXCEPT ![Web] = loaded]
        /\ out' = [NoOut EXCEPT !.proc = Web, !.op = IF i[3] # "" THEN "search" ELSE "view",
                                !.class = i[1], !.type = i[2], !.term = i[3],
                                !.msgs = r.msgs, !.results = r.results,
                                !.shown = r.shown, !.raised = r.raised]
  /\ UNCHANGED <<running, alive, file, uploads, generated, acked, writing>>

\* A rerun of the script on the "Generate PDFs" page with the button pressed;
\* the select box offers the classes of the store.
WebGenerate ==
  /\ Web \in alive
  /\ \E loaded \in {_load_notes(file).notes} :
     \E selected_class \in Keys(ClassesOf(loaded)) :
     \E r \in {generate_pdf(loaded, generated, uploads, selected_class)} :
        /\ mem' = [mem EXCEPT ![Web] = loaded]
        /\ generated' = r.generated
        /\ out' = [NoOut EXCEPT !.proc = Web, !.op = "generate", !.class = selected_class,
                                !.msgs = r.msgs]
  /\ UNCHANGED <<running, alive, file, uploads, acked, writing>>

(***************************************************************************)
(* The inputs the operations are run with.                                 *)
(***************************************************************************)
VisionText == [raises |-> FALSE, text |-> "Integrals by parts"]
VisionBlank == [raises |-> FALSE, text |-> " \n"]
VisionDown == [raises |-> TRUE, text |-> "overloaded"]

AnswerObject == [raises |-> FALSE, text |-> ObjectAnswer]
AnswerList == [raises |-> FALSE, text |-> "[\"limits\"]"]
AnswerProse == [raises |-> FALSE, text |-> "Sorry, no \\ JSON"]
AnswerDown == [raises |-> TRUE, text |-> "timeout"]

\* Failures whose message holds a closing tag of rich markup.
VisionTagged == [raises |-> TRUE, text |-> "no route [/v1/messages]"]
AnswerTagged == [raises |-> TRUE, text |-> "no route [/v1/messages]"]

Case(path, class, type, v, a, now) ==
  [path |-> path, class |-> class, type |-> type, v |-> v, a |-> a, now |-> now]

\* Uploads either front end accepts, one whose text comes out blank and one
\* without a class name.
UploadCases ==
  { Case("hw.pdf", "Math", "Notes", VisionText, AnswerObject, 2),
    Case("scan.PDF", "Math", "Exam", VisionText, AnswerProse, 1),
    Case("bad.pdf", "Art \"2\"", "Notes", VisionDown, AnswerDown, 1),
    Case("hw.pdf", "Art \"2\"", "Notes", VisionText, AnswerList, 1),
    Case("scan.PDF", "Math", "Notes", VisionBlank, AnswerObject, 2),
    Case("hw.pdf", "", "Notes", VisionText, AnswerObject, 2) }

\* Paths only the terminal prompt can be given.
TermOnlyCases ==
  { Case("gone.pdf", "Math", "Notes", VisionText, AnswerObject, 1),
    Case("notes.txt", "Math", "Notes", VisionText, AnswerObject, 1) }

\* A word of one summary only, a term that spans two fields, a term of no note.
SearchTerms == {"CHAIN", "notes covers", "zzz"}

WebViewInputs ==
  ({"All Classes"} \X {"All Types"} \X (SearchTerms \cup {""}))
    \cup {<<"Math", "Exam", "">>}

Next ==
  \/ \E c \in UploadCases \cup TermOnlyCases :
       TermUpload(c.path, c.class, c.type, c.v, c.a, c.now)
  \/ TermLaunch
  \/ \E search_term \in SearchTerms : TermSearch(search_term)
  \/ TermView("Math")
  \/ \E choice \in 1..2 : TermGenerate(choice)
  \/ WebUpload(UploadCases)
  \/ WebView(WebViewInputs)
  \/ WebGenerate

Spec == Init /\ [][Next]_vars

(***************************************************************************)
(* One front end, started on a machine whose data/notes.json is absent,    *)
(* empty, cut short, or a store from which the user removed the one record *)
(* of a class by hand and left the class aggregate.                        *)
(***************************************************************************)
HandEditedToks ==
  << "{", "\"notes\"", ":", "[", "]", ",", "\"classes\"", ":", "{",
     "\"Math\"", ":", "{", "\"total_notes\"", ":", "1", ",",
     "\"note_types\"", ":", "{", "\"Notes\"", ":", "1", "}", ",",
     "\"last_updated\"", ":", "\"2025-01-02\"", "}", "}", "}" >>

HandEditedStore ==
  JDict(<< <<"notes", JList(<<>>)>>,
           <<"classes",
             JDict(<< <<"Math",
                        JDict(<< <<"total_notes", JInt(1)>>,
                                 <<"note_types", JDict(<< <<"Notes", JInt(1)>> >>)>>,
                                 <<"last_updated", JStr("2025-01-02")>> >>)>> >>)>> >>)

InitFiles ==
  { NoFile,
    FileOf(<<>>),
    FileOf(SubSeq(HandEditedToks, 1, 12)),
    FileOf(HandEditedToks) }

InitFile == \E p \in Procs : \E f \in InitFiles : InitWith({p}, f)

FileCases == {c \in UploadCases : c.a \in {AnswerObject, AnswerList}}

NextFile ==
  \/ \E c \in FileCases \cup TermOnlyCases :
       TermUpload(c.path, c.class, c.type, c.v, c.a, c.now)
  \/ TermLaunch
  \/ \E search_term \in SearchTerms : TermSearch(search_term)
  \/ TermView("Math")
  \/ \E choice \in 1..2 : TermGenerate(choice)
  \/ WebUpload(FileCases)
  \/ WebView(WebViewInputs)
  \/ WebGenerate

SpecFile == InitFile /\ [][NextFile]_vars

(***************************************************************************)
(* Both front ends at once on the same data/notes.json.                    *)
(***************************************************************************)
InitConc == InitWith(Procs, NoFile)

ConcCases == {c \in UploadCases : c.path = "hw.pdf" /\ c.class # ""}

NextConc ==
  \/ \E c \in ConcCases : TermUpload(c.path, c.class, c.type, c.v, c.a, c.now)
  \/ TermLaunch
  \/ TermSearch("CHAIN")
  \/ WebUpload(ConcCases)
  \/ WebView({<<"All Classes", "All Types", "">>})

SpecConc == InitConc /\ [][NextConc]_vars

(***************************************************************************)
(* One front end, with uploads that take every path through the text      *)
(* extraction and the analysis.                                            *)
(***************************************************************************)
CallCases ==
  { Case("fifty.pdf", "Math", "Notes", VisionText, AnswerObject, 1),
    Case("fiftyone.pdf", "Math", "Notes", VisionText, AnswerObject, 1),
    Case("blank.pdf", "Math", "Notes", VisionText, AnswerProse, 2),
    Case("scan.PDF", "Math", "Notes", VisionBlank, AnswerObject, 1),
    Case("bad.pdf", "Math", "Exam", VisionDown, AnswerDown, 2),
    Case("bad.pdf", "Math", "Exam", VisionTagged, AnswerObject, 1),
    Case("scan.PDF", "Math", "Exam", VisionTagged, AnswerObject, 2),
    Case("hw.pdf", "Math", "Other", VisionText, AnswerTagged, 1) }

NextCalls ==
  \/ \E c \in CallCases : TermUpload(c.path, c.class, c.type, c.v, c.a, c.now)
  \/ TermLaunch
  \/ WebUpload(CallCases)

SpecCalls == Init /\ [][NextCalls]_vars

(***************************************************************************)
(* Properties.                                                             *)
(***************************************************************************)
\* The number of note records of class c in a store.
CountOf(store, c) ==
  Cardinality({i \in 1..Len(NotesOf(store)) : ClassNameOf(NotesOf(store)[i]) = c})

TotalOf(store, c) == Get(Get(ClassesOf(store), c), "total_notes")

Consistent(store) ==
  /\ \A c \in Keys(ClassesOf(store)) : TotalOf(store, c) = JInt(CountOf(store, c))
  /\ \A i \in 1..Len(NotesOf(store)) :
       Has(ClassesOf(store), ClassNameOf(NotesOf(store)[i]))

\* The operation recorded in o is an upload that reached the save.
Saved(o) == o.op = "upload" /\ o.steps # <<>> /\ o.steps[Len(o.steps)] = "save"

\* The store front end p starts its next operation from: the terminal keeps
\* self.notes, a rerun of the web script loads the file.
Before(p) == IF p = Terminal THEN mem[Terminal] ELSE _load_notes(file).notes

Range(seq) == {seq[i] : i \in 1..Len(seq)}

IsPrefix(a, b) == Len(a) <= Len(b) /\ SubSeq(b, 1, Len(a)) = a

\* C1: in every reachable state, in the memory of each front end and in the
\* file, every class's total_notes is the number of note records of that
\* class, and the class of every note record has an aggregate.
C1_TotalNotesCountsRecords ==
  /\ \A p \in running : Consistent(mem[p])
  /\ Consistent(_load_notes(file).notes)

\* A second upload for a class has just been saved: the class counts 2.
C1_Witness ==
  /\ out.proc \in Procs
  /\ Saved(out)
  /\ Has(ClassesOf(mem[out.proc]), "Math")
  /\ TotalOf(mem[out.proc], "Math") = JInt(2)
  /\ CountOf(mem[out.proc], "Math") = 2
  /\ file = _save_notes(mem[out.proc])

\* C2: a saved upload whose class name was absent from classes leaves that
\* class with total_notes 1 and note_types {uploaded type: 1}, and leaves
\* the aggregates of all other classes as they were.
C2_NewClassAggregate ==
  [][ \A p \in running :
        (out'.proc = p /\ Saved(out') /\ ~Has(ClassesOf(Before(p)), out'.class)) =>
          LET old == ClassesOf(Before(p))
              new == ClassesOf(mem'[p])
          IN /\ Has(new, out'.class)
             /\ Get(Get(new, out'.class), "total_notes") = JInt(1)
             /\ Get(Get(new, out'.class), "note_types") = JDict(<< <<out'.type, JInt(1)>> >>)
             /\ Keys(new) = Keys(old) \cup {out'.class}
             /\ \A c \in Keys(old) : Get(new, c) = Get(old, c) ]_vars

\* The first upload of a second class has just been saved.
C2_Witness ==
  /\ out.proc \in Procs
  /\ Saved(out)
  /\ Cardinality(Keys(ClassesOf(mem[out.proc]))) = 2
  /\ CountOf(mem[out.proc], out.class) = 1
  /\ TotalOf(mem[out.proc], out.class) = JInt(1)
  /\ Len(NotesOf(mem[out.proc])) = 2

\* The operation recorded in o is an upload that stopped at the blank text.
BlankAbort(o) ==
  o.op = "upload" /\ ~o.raised /\ o.steps # <<>> /\ o.steps[Len(o.steps)] = "extract"

\* C3: in both front ends an upload whose extracted text is blank after
\* trimming changes nothing: the store in memory, the file and the uploads
\* directory are as before.
C3_BlankTextLeavesNothing ==
  [][ BlankAbort(out') =>
        /\ mem'[out'.proc] = Before(out'.proc)
        /\ file' = file
        /\ uploads' = uploads ]_vars

\* The upload recorded in o was given a path that does not exist, a name
\* that does not end in .pdf, or no class name.
UserInputError(o) ==
  /\ o.op = "upload"
  /\ \/ o.path \notin DOMAIN UserDisk
     \/ lower(suffix(o.path)) # ".pdf"
     \/ o.class = ""

\* C4: in both front ends an upload with a user-input error is reported and
\* changes nothing: no save, and the store in memory, the file and the
\* uploads directory are as before.
C4_InputErrorLeavesNothing ==
  [][ UserInputError(out') =>
        /\ out'.msgs # <<>>
        /\ ~Saved(out')
        /\ mem'[out'.proc] = Before(out'.proc)
        /\ file' = file
        /\ uploads' = uploads ]_vars

\* C5: saving the store of a front end and loading what was saved gives the
\* same store, field for field and in the same order, with no warning.
C5_SaveLoadRoundTrip ==
  \A p \in running :
    _load_notes(_save_notes(mem[p])) = [notes |-> mem[p], warned |-> FALSE]

\* A saved store with a class name that holds a quote and a summary that
\* holds a backslash.
C5_Witness ==
  /\ out.proc \in Procs
  /\ Saved(out)
  /\ file = _save_notes(mem[out.proc])
  /\ LET ns == NotesOf(mem[out.proc])
     IN /\ Len(ns) = 2
        /\ \E i \in 1..Len(ns) : Contains(ClassNameOf(ns[i]), "\"")
        /\ \E i \in 1..Len(ns) :
             /\ IsDict(AnalysisOf(ns[i]))
             /\ Contains(SummaryOf(ns[i], "")[2], "\\")

\* The searched fields of a note, as far as it has them.
SummaryText(note) ==
  IF IsDict(AnalysisOf(note)) /\ IsStr(SummaryOf(note, ""))
  THEN SummaryOf(note, "")[2] ELSE ""

TopicsOf(note) ==
  IF IsDict(AnalysisOf(note)) /\ IsList(GetOr(AnalysisOf(note), "key_topics", JList(<<>>)))
  THEN {t[2] : t \in {u \in Range(Get(AnalysisOf(note), "key_topics")[2]) : IsStr(u)}}
  ELSE {}

Occurs(term, text) == Contains(lower(text), lower(term))

OnlyInSummary(term, note) ==
  /\ Occurs(term, SummaryText(note))
  /\ ~Occurs(term, ClassNameOf(note))
  /\ ~Occurs(term, NoteTypeOf(note))
  /\ \A t \in TopicsOf(note) : ~Occurs(term, t)

InNoField(term, note) ==
  /\ ~Occurs(term, SummaryText(note))
  /\ ~Occurs(term, ClassNameOf(note))
  /\ ~Occurs(term, NoteTypeOf(note))
  /\ \A t \in TopicsOf(note) : ~Occurs(term, t)

\* C6: a search displays every note that has the term in its summary only,
\* and finds nothing when the term is in no field (class name, note type,
\* summary, key topics) of any note.
C6_SearchBySummary ==
  out.op = "search" =>
    LET ns == NotesOf(mem[out.proc])
    IN /\ \A i \in 1..Len(ns) :
            OnlyInSummary(out.term, ns[i]) => ns[i] \in Range(out.shown)
       /\ (\A i \in 1..Len(ns) : InNoField(out.term, ns[i])) => out.results = <<>>

\* C7: in both front ends, generating the combined PDF of a class without
\* note records writes nothing and reports that no notes were found.
C7_EmptyClassIsNoOp ==
  [][ ( /\ out'.op = "generate"
        /\ Has(ClassesOf(mem'[out'.proc]), out'.class)
        /\ CountOf(mem'[out'.proc], out'.class) = 0 ) =>
        /\ generated' = generated
        /\ "No notes found for class" \in Range(out'.msgs) ]_vars

\* C8: the file is rewritten whole from the writer's own store: each write
\* is a saved upload, and the file then holds the store the writer started
\* from plus the new record and nothing else.  The terminal starts from the
\* store it loaded at startup, so records saved by the web session since
\* then are lost.
C8_LastWriteWins ==
  [][ file' # file =>
        /\ out'.proc \in running
        /\ Saved(out')
        /\ file' = FileOf(json_dump(mem'[out'.proc]))
        /\ NotesOf(mem'[out'.proc])
             = Append(NotesOf(Before(out'.proc)), LastNote(mem'[out'.proc])) ]_vars

\* A record the web session saved and reported is no longer in the file,
\* after a save of the terminal.
C8_Witness ==
  /\ out.proc = Terminal
  /\ Saved(out)
  /\ \E a \in acked :
       /\ a[1] = Web
       /\ IsDict(AnalysisOf(a[2]))
       /\ a[2] \notin Range(NotesOf(_load_notes(file).notes))

\* C9: in each front end the notes list only grows at its end, by one
\* record per saved upload; search, view and generation leave the store in
\* memory and the file as they were.
C9_AppendOnly ==
  [][ /\ \A p \in running :
           /\ IsPrefix(NotesOf(mem[p]), NotesOf(mem'[p]))
           /\ mem'[p] # mem[p] =>
                /\ out'.proc = p
                /\ Saved(out')
                /\ Len(NotesOf(mem'[p])) = Len(NotesOf(mem[p])) + 1
      /\ out'.op \in {"search", "view", "generate"} => mem' = mem /\ file' = file ]_vars

\* A combined PDF was generated for a class whose records are not in date
\* order in the store.
C9_Witness ==
  /\ out.op = "generate"
  /\ out.proc \in Procs
  /\ "Generated combined PDF" \in Range(out.msgs)
  /\ LET ns == NotesOf(mem[out.proc])
     IN /\ Len(ns) = 2
        /\ ClassNameOf(ns[1]) = out.class
        /\ ClassNameOf(ns[2]) = out.class
        /\ StrLess(DateOf(ns[2]), DateOf(ns[1]))

Unparseable(f) == f.exists /\ ~json_load(f.toks).ok

\* The last thing front end p did was to load the store.
JustLoaded(p) ==
  \/ out.op = ""
  \/ out.proc = p /\ out.op = "launch"
  \/ out.proc = p /\ p = Web /\ out.op \in {"search", "view", "generate"}

WorkflowOrder == <<"validate", "extract", "analyze", "copy", "append", "save">>

\* C11: in both front ends the steps of an upload are taken in the order
\* validate, extract, analyze, copy, append, save, and a PDF is written into
\* the uploads directory only by an upload whose extraction returned a text
\* that is not blank and whose analysis was made.
C11_WorkflowOrder ==
  /\ [](out.op = "upload" => IsPrefix(out.steps, WorkflowOrder))
  /\ [][ uploads' # uploads =>
           /\ out'.op = "upload"
           /\ strip(out'.text) # ""
           /\ out'.analysis = 1 ]_vars

\* The upload recorded in o ran the text extraction, which returned.
Extracted(o) ==
  /\ o.op = "upload"
  /\ "extract" \in Range(o.steps)
  /\ ~(o.raised /\ o.steps[Len(o.steps)] = "extract")

\* What the vision fallback returns for the answer v of its call.
VisionResult(v) ==
  IF v.raises THEN "PDF document processing failed: " \o v.text ELSE v.text

C13_ExtractionNeverRaises ==
  (out.op = "upload" /\ "extract" \in Range(out.steps)) =>
    /\ Extracted(out)
    /\ UserDisk[out.path].raises => out.vision = 1
    /\ (out.vision = 1 /\ out.v.raises) =>
         out.text = "PDF document processing failed: " \o out.v.text

\* C14: an upload makes each AI call at most once: the vision call once
\* when the parser raised or the parsed text is 50 characters or less and
\* not otherwise, the analysis call once when the upload reached the
\* analysis and not when it stopped before.
C14_NoRetries ==
  out.op = "upload" =>
    /\ out.vision \in {0, 1}
    /\ out.vision = 1 <=>
         /\ "extract" \in Range(out.steps)
         /\ \/ UserDisk[out.path].raises
            \/ Len(strip(PagesText(UserDisk[out.path].pages))) <= 50
    /\ out.analysis = IF "analyze" \in Range(out.steps) THEN 1 ELSE 0

\* A saved upload whose vision call failed and whose analysis call failed.
C14_Witness ==
  /\ Saved(out)
  /\ out.v.raises
  /\ out.a.raises
  /\ out.vision = 1
  /\ out.analysis = 1

\* C15: an upload that made the analysis call goes on to the save whatever
\* the call did, and the saved store holds exactly one record more than the
\* store the upload started from.
C15_AnalysisNeverAborts ==
  [][(out'.op = "upload" /\ out'.analysis = 1) =>
       /\ Saved(out')
       /\ Len(NotesOf(_load_notes(file').notes))
            = Len(NotesOf(Before(out'.proc))) + 1]_vars

\* C16: a search returns the matching notes in the order of the list, the
\* terminal shows ten of them at most, and on one store with ten matching
\* notes or fewer the terminal search and the web search of the same term
\* return the same set of notes.
C16_SearchSameNotes ==
  (out.op = "search" /\ ~out.raised) =>
    LET store == Before(out.proc)
        Found(note) == note \in Range(out.results)
        t == search_notes(store, out.term)
        w == web_view_notes(store, "All Classes", "All Types", out.term)
    IN /\ out.results = SelectSeq(NotesOf(store), Found)
       /\ out.proc = Terminal => Len(out.shown) <= DisplayLimit
       /\ out.proc = Web => out.shown = out.results
       /\ Len(t.results) <= DisplayLimit => Range(t.results) = Range(w.results)

(***************************************************************************)
(* One front end searching for words of the key topics.                    *)
(***************************************************************************)
SearchCases ==
  { Case("hw.pdf", "Math", "Notes", VisionText, AnswerObject, 1),
    Case("hw.pdf", "Math", "Homework", VisionText, AnswerObject, 2),
    Case("scan.PDF", "Physics", "Exam", VisionText, AnswerProse, 2) }

\* A key topic in capitals, another key topic, a class name, a term of no note.
TopicTerms == {"SLOPES", "limits", "math", "zzz"}

NextSearch ==
  \/ \E c \in SearchCases : TermUpload(c.path, c.class, c.type, c.v, c.a, c.now)
  \/ \E search_term \in TopicTerms : TermSearch(search_term)
  \/ WebUpload(SearchCases)
  \/ WebView({"All Classes"} \X {"All Types"} \X TopicTerms)

SpecSearch == Init /\ [][NextSearch]_vars

\* C17: a search returns every note that has the term, in any case, in one
\* of its key topics.
C17_SearchByKeyTopic ==
  (out.op = "search" /\ ~out.raised) =>
    \A i \in 1..Len(NotesOf(Before(out.proc))) :
      LET note == NotesOf(Before(out.proc))[i]
      IN (\E t \in TopicsOf(note) : Occurs(out.term, t)) => note \in Range(out.results)

\* The parts of a combined PDF that are divider pages.
DividersOf(parts) ==
  LET IsDivider(part) == part[1] = "divider"
  IN SelectSeq(parts, IsDivider)

\* C18: after the terminal generated the combined PDF of a class with n >= 1
\* notes, the output holds exactly n dividers, numbered 1..n, one per note in
\* ascending order of upload_date, each followed at once by the original of
\* its note when that file exists, and no other original.
C18_TerminalCombinedPdf ==
  (out.op = "generate" /\ out.proc = Terminal /\ out.class # "") =>
    LET IsClass(note) == ClassNameOf(note) = out.class
        class_notes == SelectSeq(NotesOf(mem[Terminal]), IsClass)
        n == Len(class_notes)
        NoteOf(id) == CHOOSE note \in Range(class_notes) : str(Get(note, "id")) = id
    IN n >= 1 =>
         /\ OutputPath(out.class) \in DOMAIN generated
         /\ LET parts == generated[OutputPath(out.class)]
                dividers == DividersOf(parts)
            IN /\ Len(dividers) = n
               /\ \A k \in 1..Len(dividers) : dividers[k][3] = DigitsOf(k)
               /\ {dividers[k][2] : k \in 1..Len(dividers)}
                    = {str(Get(note, "id")) : note \in Range(class_notes)}
               /\ \A k \in 1..(Len(dividers) - 1) :
                    ~StrLess(DateOf(NoteOf(dividers[k + 1][2])),
                             DateOf(NoteOf(dividers[k][2])))
               /\ \A j \in 1..Len(parts) :
                    IF parts[j][1] = "original"
                    THEN /\ j > 1
                         /\ parts[j - 1][1] = "divider"
                         /\ parts[j] = OriginalPart(NoteOf(parts[j - 1][2]))
                         /\ parts[j][2] \in DOMAIN uploads
                    ELSE OriginalPart(NoteOf(parts[j][2]))[2] \in DOMAIN uploads
                           => /\ j < Len(parts)
                              /\ parts[j + 1] = OriginalPart(NoteOf(parts[j][2]))

\* C19: a combined PDF the web front end generated for a class holds the
\* originals of the notes of the class that exist in uploads, no divider,
\* in ascending order of upload date, whatever the order of the list.
C19_WebCombinedPdf ==
  (/\ out.op = "generate"
   /\ out.proc = Web
   /\ "Generated combined PDF" \in Range(out.msgs)) =>
    LET IsClass(note) == ClassNameOf(note) = out.class
        class_notes == SelectSeq(NotesOf(Before(Web)), IsClass)
        parts == generated[OutputPath(out.class)]
        NoteAt(part) == CHOOSE note \in Range(class_notes) : OriginalPart(note) = part
    IN /\ DividersOf(parts) = <<>>
       /\ Range(parts) = {OriginalPart(note) :
                            note \in {m \in Range(class_notes) :
                                        OriginalPart(m)[2] \in DOMAIN uploads}}
       /\ \A j \in 1..(Len(parts) - 1) :
            ~StrLess(DateOf(NoteAt(parts[j + 1])), DateOf(NoteAt(parts[j])))

\* The number of records of class c and type t.
TypeCountOf(store, c, t) ==
  Cardinality({i \in 1..Len(NotesOf(store)) :
                 /\ ClassNameOf(NotesOf(store)[i]) = c
                 /\ NoteTypeOf(NotesOf(store)[i]) = t})

NoteTypesOf(store, c) == Get(Get(ClassesOf(store), c), "note_types")

\* The sum of the values of a dict of counts.
RECURSIVE SumValues(_)
SumValues(members) ==
  IF members = <<>> THEN 0 ELSE members[1][2][2] + SumValues(Tail(members))

TypesConsistent(store) ==
  \A c \in Keys(ClassesOf(store)) :
    LET note_types == NoteTypesOf(store, c)
    IN /\ Keys(note_types) \subseteq NoteTypes
       /\ \A t \in NoteTypes :
            IF TypeCountOf(store, c, t) = 0
            THEN ~Has(note_types, t)
            ELSE Get(note_types, t) = JInt(TypeCountOf(store, c, t))
       /\ \A i \in 1..Len(NotesOf(store)) :
            ClassNameOf(NotesOf(store)[i]) = c => NoteTypeOf(NotesOf(store)[i]) \in NoteTypes
       /\ JInt(SumValues(note_types[2])) = TotalOf(store, c)

\* C20: in every reachable state, in the memory of each front end and in the
\* file, note_types of every class maps each type to the number of records
\* of that class and type, has no entry for a type without a record, has
\* only the five note types as keys, and its values sum to total_notes.
C20_NoteTypesCountRecords ==
  /\ \A p \in running : TypesConsistent(mem[p])
  /\ TypesConsistent(_load_notes(file).notes)

\* A class holds two records of one type, or two records of two types, after
\* a saved upload.
C20_Witness ==
  /\ out.proc \in Procs
  /\ Saved(out)
  /\ file = _save_notes(mem[out.proc])
  /\ Has(ClassesOf(mem[out.proc]), "Math")
  /\ \/ TypeCountOf(mem[out.proc], "Math", "Notes") = 2
     \/ /\ TypeCountOf(mem[out.proc], "Math", "Notes") = 1
        /\ TypeCountOf(mem[out.proc], "Math", "Exam") = 1

(***************************************************************************)
(* Both front ends on one file, the steps of an upload taken one by one:   *)
(* the load of a web rerun, the upload up to open(notes_file, 'w'), which  *)
(* empties the file, and json.dump with the close, which writes the text   *)
(* from the start of the file over what the file holds by then.  Neither   *)
(* front end locks the file.                                               *)
(***************************************************************************)
\* The characters of the file.
FileText(f) ==
  IF ~f.exists \/ f.toks = <<>> THEN ""
  ELSE LET r == ParseValue(f.toks, 1)
       IN IF r.ok /\ r.next = Len(f.toks) + 1 THEN DumpText(r.val, 0)
          ELSE IF r.ok /\ r.next = Len(f.toks)
          THEN DumpText(r.val, 0) \o f.toks[Len(f.toks)]
          ELSE ""

\* A handle opened with 'w' writes the store from offset 0 and closes: the
\* characters of the file beyond the written text stay.
WriteOver(f, notes) ==
  LET old == FileText(f)
      new == DumpText(notes, 0)
  IN IF Len(old) > Len(new)
     THEN FileOf(json_dump(notes) \o <<SubSeq(old, Len(new) + 1, Len(old))>>)
     ELSE FileOf(json_dump(notes))

\* The start of a web rerun on the upload page: SBNotesWeb() loads the store.
RaceLoad ==
  /\ Web \in alive
  /\ writing[Web].phase = "idle"
  /\ mem' = [mem EXCEPT ![Web] = _load_notes(file).notes]
  /\ writing' = [writing EXCEPT ![Web] = [phase |-> "loaded", out |-> NoOut]]
  /\ out' = [NoOut EXCEPT !.proc = Web, !.op = "rerun"]
  /\ UNCHANGED <<running, alive, file, uploads, generated, acked>>

\* upload_notes of front end p up to the open of _save_notes.
RaceOpen(p, c) ==
  /\ p \in alive
  /\ writing[p].phase = IF p = Web THEN "loaded" ELSE "idle"
  /\ Len(NotesOf(mem[p])) < MaxNotes
  /\ \E r \in {IF p = Terminal
               THEN upload_notes(mem[p], uploads, c.path, c.class, c.type, c.v, c.a, c.now)
               ELSE web_upload_notes(mem[p], uploads, c.path, c.class, c.type, c.v, c.a, c.now)} :
        /\ r.saved
        /\ mem' = [mem EXCEPT ![p] = r.notes]
        /\ uploads' = r.uploads
        /\ file' = FileOf(<<>>)
        /\ \E o \in {[NoOut EXCEPT !.proc = p, !.op = "upload", !.path = c.path,
                                   !.class = c.class, !.type = c.type,
                                   !.steps = SubSeq(r.steps, 1, Len(r.steps) - 1),
                                   !.vision = r.vision, !.analysis = r.analysis,
                                   !.text = r.text, !.v = c.v, !.a = c.a,
                                   !.msgs = r.msgs, !.raised = r.raised]} :
             /\ writing' = [writing EXCEPT ![p] = [phase |-> "open", out |-> o]]
             /\ out' = [o EXCEPT !.msgs = <<>>, !.raised = FALSE]
  /\ UNCHANGED <<running, alive, generated, acked>>

\* json.dump and the close of the handle of front end p, and what
\* upload_notes prints after the save.
RaceWrite(p) ==
  /\ writing[p].phase = "open"
  /\ file' = WriteOver(file, mem[p])
  /\ writing' = [writing EXCEPT ![p] = Idle]
  /\ out' = [writing[p].out EXCEPT !.steps = Append(@, "save")]
  /\ acked' = acked \cup {<<p, LastNote(mem[p])>>}
  /\ alive' = IF writing[p].out.raised THEN alive \ {p} ELSE alive
  /\ UNCHANGED <<running, mem, uploads, generated>>

RaceCases ==
  { Case("hw.pdf", "Math", "Notes", VisionText, AnswerObject, 1),
    Case("hw.pdf", "Math", "Exam", VisionText, AnswerObject, 2) }

NextRace ==
  \/ RaceLoad
  \/ \E p \in Procs : \E c \in RaceCases : RaceOpen(p, c)
  \/ \E p \in Procs : RaceWrite(p)

SpecRace == InitConc /\ [][NextRace]_vars

\* C21: with two front ends uploading on one file in any interleaving of
\* their steps, the file right after a completed save is a store in which
\* total_notes of every class is the number of records of that class.
C21_FileConsistentAfterSave ==
  Saved(out) =>
    /\ json_load(file.toks).ok
    /\ Consistent(json_load(file.toks).val)

\* C22: the analysis of every note record, in the memory of each front end
\* and in the file, is a mapping with exactly the seven fields summary,
\* key_topics, important_concepts, difficulty_level, estimated_study_time,
\* related_topics and transcription_quality, whatever the analysis call
\* answered.
C22_AnalysisHasSevenFields ==
  LET Fields == {"summary", "key_topics", "important_concepts", "difficulty_level",
                 "estimated_study_time", "related_topics", "transcription_quality"}
      WellFormed(store) ==
        \A i \in 1..Len(NotesOf(store)) :
          /\ IsDict(AnalysisOf(NotesOf(store)[i]))
          /\ Keys(AnalysisOf(NotesOf(store)[i])) = Fields
  IN /\ \A p \in running : WellFormed(mem[p])
     /\ WellFormed(_load_notes(file).notes)

\* C23: an upload whose parser raised or gave 50 trimmed characters or less
\* and whose vision call raised goes on: the analysis runs and a record whose
\* text_preview is the failure string is appended and saved; and an upload
\* stops for blank text only after a vision call that answered with blank
\* text.
C23_FailedExtractionIsSaved ==
  /\ (/\ out.op = "upload"
      /\ "extract" \in Range(out.steps)
      /\ \/ UserDisk[out.path].raises
         \/ Len(strip(PagesText(UserDisk[out.path].pages))) <= SubstantialLen
      /\ out.v.raises) =>
       /\ Saved(out)
       /\ out.analysis = 1
       /\ Get(LastNote(mem[out.proc]), "text_preview")
            = JStr("PDF document processing failed: " \o out.v.text)
       /\ LastNote(_load_notes(file).notes) = LastNote(mem[out.proc])
  /\ BlankAbort(out) =>
       /\ out.vision = 1
       /\ ~out.v.raises
       /\ strip(out.v.text) = ""

====
